---------------------------- MODULE Spec2Model ----------------------------
(***************************************************************************)
(* A model of the answer-pointer decoder of biomedical_qa                  *)
(* (src/biomedical_qa/models/qa_pointer.py): the null-word augmenter, the  *)
(* construction and configuration round trip of QAPointerModel, the        *)
(* train/eval and beam-size flags, and the two decoders (DPN and SPN);     *)
(* and of the writer of the answers into a BioASQ file.                    *)
(*                                                                         *)
(* Four specifications share the module:                                  *)
(*   SpecNull    append_null_word applied to a batch of encoded sequences  *)
(*   SpecConfig  __init__/_init, get_config and create_from_config         *)
(*   Spec        the flags and one forward pass of the pointer layer       *)
(*   SpecInsert  insert_answers of tools/bioasq_inference.py               *)
(***************************************************************************)
EXTENDS Integers, Sequences, FiniteSets, TLC

(***************************************************************************)
(* Bounds of the model.                                                    *)
(***************************************************************************)
\* largest batch (number of contexts) of a pass
MaxBatch == 2
\* largest padded time dimension T of a tensor given to append_null_word
MaxTime == 3

(***************************************************************************)
(* Feature vectors are abstracted to two values: 0, the value of the       *)
(* NULL_WORD vector (qa_pointer.py:78-80), and 1, any other vector.        *)
(***************************************************************************)
FeatureValues == {0, 1}

VARIABLES
    \* ---- SpecNull: append_null_word(tensor, lengths, null_word)
    tensor,        \* [B,T] input, a sequence of rows
    lengths,       \* [B] valid length of each row
    null_word,     \* the sentinel vector
    new_tensor,    \* the returned tensor, <<>> before the call
    new_lengths,   \* the returned lengths, <<>> before the call
    \* ---- SpecConfig: construction and the configuration round trip
    cfg_pc,        \* "start", "constructed", "saved" or "restored"
    model,         \* <<m>>: the QAPointerModel a constructor call returned
    graph,         \* the graph parts the last constructor call built, in order
    error,         \* "none", or the exception the last constructor call raised
    config,        \* <<c>>: the dictionary get_config returned, as
                   \* create_from_config left it
    given,         \* <<c>>: the dictionary create_from_config was called with
    restored,      \* <<m>>: the model create_from_config returned
    \* ---- Spec: the flags
    is_eval,       \* the graph variable "is_eval"
    beam_size,     \* the graph variable "beam_size"
    last_mode,     \* history: "none", or the last of set_train/set_eval called
    last_beam,     \* history: the last value set_beam_size was called with
    \* ---- Spec: one forward pass of the pointer layer
    answer_layer_type,      \* "dpn" or "spn", fixed by the constructor
    batch_size,             \* the number of contexts of a batch
    pc,                     \* "idle", "dpn", "spn_start", "spn_end" or "done"
    context_length,         \* [B] lengths, the null word included
    answer_partition,       \* [A] the context of each answer slot
    correct_start_pointer,  \* [A] the gold start of each answer slot
    i,                      \* DPN: the number of iterations completed
    next_start,             \* DPN: [B] the start argmax of the last iteration
    next_end,               \* DPN: [B] the end argmax of the last iteration
    current_start,          \* DPN: [B] the tracked start
    current_end,            \* DPN: [B] the tracked end
    is_stable,              \* DPN: [B] the stability flag
    repeats,                \* history, DPN: [B] the pairs <<start, end>> of the
                            \* iterations whose pair was that of the iteration
                            \* before, in order
    spn_beam_size,          \* SPN: the beam size of the pass
    spn_answer_partition,   \* SPN: the answer partition of the pass
    spn_start_scores,       \* SPN: [B] the start scores given to the decoder
    hypotheses,             \* SPN: [R] the decoder's rows after the start
                            \* scores: row, start and start probability
    partition,              \* SPN: [R] the context of each hypothesis row
    spn_start_pointer,      \* SPN: [R] the start the end scoring is given
    spn_end_scores,         \* SPN: [R] the end scores given to the decoder
    top_spans,              \* SPN: per decoder row, the spans of
                            \* get_top_spans: start, end and probability
    start_scores,           \* the returned start scores
    end_scores,             \* the returned end scores
    start_pointer,          \* [A] the returned start pointer
    end_pointer,            \* [A] the returned end pointer
    \* ---- SpecInsert: insert_answers(bioasq_json, answers)
    ins_pc,        \* "start" or "returned"
    bioasq_json,   \* [questions |-> the questions of the file, in order]
    answers,       \* question id -> InferenceResult
    inserted       \* <<d>>: the dictionary insert_answers returned

nullVars == <<tensor, lengths, null_word, new_tensor, new_lengths>>
cfgVars == <<cfg_pc, model, graph, error, config, given, restored>>
flagVars == <<is_eval, beam_size, last_mode, last_beam>>
passVars == <<pc, context_length, answer_partition, correct_start_pointer>>
dpnVars == <<i, next_start, next_end, current_start, current_end, is_stable,
             repeats>>
spnVars == <<spn_beam_size, spn_answer_partition, spn_start_scores,
             hypotheses, partition, spn_start_pointer, spn_end_scores,
             top_spans>>
outVars == <<start_scores, end_scores, start_pointer, end_pointer>>
decodeVars == <<answer_layer_type, batch_size, flagVars, passVars, dpnVars,
                spnVars, outVars>>
insVars == <<ins_pc, bioasq_json, answers, inserted>>
vars == <<nullVars, cfgVars, decodeVars, insVars>>

\* the state of SpecInsert's variables while another specification runs
InsertIdle ==
    /\ ins_pc = "start"
    /\ bioasq_json = [questions |-> <<>>]
    /\ answers = <<>>
    /\ inserted = <<>>

\* the state of SpecNull's variables while another specification runs
NullIdle ==
    /\ tensor = <<>>
    /\ lengths = <<>>
    /\ null_word = 0
    /\ new_tensor = <<>>
    /\ new_lengths = <<>>

\* the state of SpecConfig's variables while another specification runs
ConfigIdle ==
    /\ cfg_pc = "start"
    /\ model = <<>>
    /\ graph = <<>>
    /\ error = "none"
    /\ config = <<>>
    /\ given = <<>>
    /\ restored = <<>>

\* the state of the DPN loop's variables outside a DPN pass
DpnIdle ==
    /\ i = 0
    /\ next_start = <<>>
    /\ next_end = <<>>
    /\ current_start = <<>>
    /\ current_end = <<>>
    /\ is_stable = <<>>
    /\ repeats = <<>>

\* the state of the SPN decoder's variables outside an SPN pass
SpnIdle ==
    /\ spn_beam_size = 1
    /\ spn_answer_partition = <<>>
    /\ spn_start_scores = <<>>
    /\ hypotheses = <<>>
    /\ partition = <<>>
    /\ spn_start_pointer = <<>>
    /\ spn_end_scores = <<>>
    /\ top_spans = <<>>

\* nothing has been returned
OutIdle ==
    /\ start_scores = <<>>
    /\ end_scores = <<>>
    /\ start_pointer = <<>>
    /\ end_pointer = <<>>

\* no batch has been fed
PassIdle ==
    /\ pc = "idle"
    /\ context_length = <<>>
    /\ answer_partition = <<>>
    /\ correct_start_pointer = <<>>

\* the state of Spec's variables while another specification runs
DecodeIdle ==
    /\ answer_layer_type = "dpn"
    /\ batch_size = 1
    /\ is_eval = FALSE
    /\ beam_size = 1
    /\ last_mode = "none"
    /\ last_beam = 1
    /\ PassIdle
    /\ DpnIdle
    /\ SpnIdle
    /\ OutIdle

(***************************************************************************)
(* tf.reverse_sequence(input, seq_lengths, 1) on one row: the first L      *)
(* entries are reversed, the rest is left in place.                        *)
(***************************************************************************)
ReverseSequence(row, L) ==
    [j \in 1..Len(row) |-> IF j <= L THEN row[L + 1 - j] ELSE row[j]]

\* mutant: the sentinel is concatenated behind the padding, at index T
AppendNullWordAtEnd(t, ls, nw) ==
    [tensor  |-> [b \in 1..Len(t) |-> t[b] \o <<nw>>],
     lengths |-> [b \in 1..Len(t) |-> ls[b] + 1]]

(***************************************************************************)
(* QAPointerModel.append_null_word: reverse each row up to its length,     *)
(* prepend the null word, reverse again up to length + 1.                  *)
(***************************************************************************)
AppendNullWord(t, ls, nw) ==
    LET rev_tensor  == [b \in 1..Len(t) |-> ReverseSequence(t[b], ls[b])]
        rev_tensor2 == [b \in 1..Len(t) |-> <<nw>> \o rev_tensor[b]]
        new         == [b \in 1..Len(t) |->
                           ReverseSequence(rev_tensor2[b], ls[b] + 1)]
    IN  [tensor  |-> new,
         lengths |-> [b \in 1..Len(t) |-> ls[b] + 1]]

InitNull ==
    /\ \E B \in 1..MaxBatch, T \in 1..MaxTime :
          /\ tensor \in [1..B -> [1..T -> FeatureValues]]
          /\ lengths \in [1..B -> 1..T]
    /\ null_word = 0
    /\ new_tensor = <<>>
    /\ new_lengths = <<>>
    /\ ConfigIdle
    /\ DecodeIdle
    /\ InsertIdle

ApplyAppendNullWord ==
    /\ new_tensor = <<>>
    /\ LET r == AppendNullWord(tensor, lengths, null_word)
       IN  /\ new_tensor' = r.tensor
           /\ new_lengths' = r.lengths
    /\ UNCHANGED <<tensor, lengths, null_word>>
    /\ UNCHANGED <<cfgVars, decodeVars, insVars>>

NextNull == ApplyAppendNullWord

SpecNull == InitNull /\ [][NextNull]_vars

(***************************************************************************)
(* C1: for every example with valid length L (0 < L <= T) the output is    *)
(* [B,T+1,H] with length L+1; output positions 0..L-1 hold the original    *)
(* tokens in order, position L holds the sentinel (inserted there and not  *)
(* at index T), and positions L+1..T hold the original padding L..T-1.     *)
(* Positions are 0-based in the claim and 1-based in the sequences here.   *)
(***************************************************************************)
C1_NullWordAfterLastToken ==
    new_tensor # <<>> =>
        /\ Len(new_tensor) = Len(tensor)
        /\ Len(new_lengths) = Len(tensor)
        /\ \A b \in 1..Len(tensor) :
              LET L == lengths[b]
                  T == Len(tensor[b])
              IN  /\ Len(new_tensor[b]) = T + 1
                  /\ new_lengths[b] = L + 1
                  /\ \A j \in 1..L : new_tensor[b][j] = tensor[b][j]
                  /\ new_tensor[b][L + 1] = null_word
                  /\ \A j \in (L + 1)..T : new_tensor[b][j + 1] = tensor[b][j]

\* a call on a row with padding behind tokens that differ from each other
\* and whose padding differs from the sentinel
C1_Witness ==
    /\ new_tensor # <<>>
    /\ \E b \in 1..Len(tensor) :
          /\ lengths[b] >= 2
          /\ lengths[b] < Len(tensor[b])
          /\ tensor[b][1] # tensor[b][2]
          /\ tensor[b][lengths[b] + 1] # null_word

(***************************************************************************)
(* Construction and configuration.                                         *)
(***************************************************************************)
\* largest answer_layer_depth and answer_layer_poolsize a caller passes
MaxDepth == 2
MaxPoolsize == 2
\* create_from_config's defaults for configurations of older versions
DefaultDepth == 1
DefaultPoolsize == 8
DefaultType == "dpn"

Compositions == {"GRU", "RNN", "LSTM"}
\* "mlp" stands for any answer_layer_type that is neither "dpn" nor "spn"
AnswerLayerTypes == {"dpn", "spn", "mlp"}
OptionalKeys ==
    {"answer_layer_depth", "answer_layer_poolsize", "answer_layer_type"}

\* the keyword arguments of QAPointerModel.__init__ that the claims are about
ConstructorArgs ==
    [composition : Compositions,
     answer_layer_depth : 1..MaxDepth,
     answer_layer_poolsize : 1..MaxPoolsize,
     answer_layer_type : AnswerLayerTypes]

\* mutant: the answer layer type is validated before anything is built
ConstructFailFast(args) ==
    IF args.answer_layer_type \in {"dpn", "spn"}
    THEN [model |-> <<args>>,
          graph |-> <<"is_eval", "beam_size", "preprocessing_layer",
                      "NULL_WORD", "match_layer",
                      args.answer_layer_type \o "_answer_layer">>,
          error |-> "none"]
    ELSE [model |-> <<>>, graph |-> <<>>, error |-> "ValueError"]

(***************************************************************************)
(* QAPointerModel.__init__ and _init: the fields are stored, then the      *)
(* graph is built in order: the two flag variables, the preprocessing      *)
(* layer (encoders and question attention), the null word, the match       *)
(* layer, and last the pointer layer, where an answer_layer_type other     *)
(* than "dpn" and "spn" raises ValueError.  A constructor that raises      *)
(* returns no object; what it added to the graph stays there.              *)
(***************************************************************************)
Construct(args) ==
    LET before == <<"is_eval", "beam_size", "preprocessing_layer",
                    "NULL_WORD", "match_layer">>
    IN  IF args.answer_layer_type = "dpn"
        THEN [model |-> <<args>>,
              graph |-> Append(before, "dpn_answer_layer"),
              error |-> "none"]
        ELSE IF args.answer_layer_type = "spn"
        THEN [model |-> <<args>>,
              graph |-> Append(before, "spn_answer_layer"),
              error |-> "none"]
        ELSE [model |-> <<>>, graph |-> before, error |-> "ValueError"]

\* dictionary d with d[k] = v set
DictSet(d, k, v) ==
    [x \in (DOMAIN d) \cup {k} |-> IF x = k THEN v ELSE d[x]]

\* dictionary d without the keys of D
DictDrop(d, D) == [x \in (DOMAIN d) \ D |-> d[x]]

(***************************************************************************)
(* The dictionary of the parent's get_config: the keys create_from_config  *)
(* reads besides the ones QAPointerModel.get_config sets.  Their values    *)
(* do not matter here.                                                     *)
(***************************************************************************)
SuperConfig ==
    [x \in {"size", "name", "transfer_model"} |-> "super"]

\* QAPointerModel.get_config
GetConfig(m) ==
    LET c1 == DictSet(SuperConfig, "type", "pointer")
        c2 == DictSet(c1, "composition", m.composition)
        c3 == DictSet(c2, "answer_layer_depth", m.answer_layer_depth)
        c4 == DictSet(c3, "answer_layer_poolsize", m.answer_layer_poolsize)
    IN  DictSet(c4, "answer_layer_type", m.answer_layer_type)

\* mutant: the defaults are set whether or not the key is present
CreateFromConfigOverwrite(c) ==
    LET c1 == DictSet(c, "answer_layer_depth", DefaultDepth)
        c2 == DictSet(c1, "answer_layer_poolsize", DefaultPoolsize)
        c3 == DictSet(c2, "answer_layer_type", DefaultType)
    IN  [config |-> c3,
         built  |-> Construct(
                      [composition |-> c3["composition"],
                       answer_layer_depth |-> c3["answer_layer_depth"],
                       answer_layer_poolsize |-> c3["answer_layer_poolsize"],
                       answer_layer_type |-> c3["answer_layer_type"]])]

\* mutant: the default of answer_layer_poolsize is the one of depth
CreateFromConfigPoolDefault(c) ==
    LET c1 == IF "answer_layer_depth" \notin DOMAIN c
              THEN DictSet(c, "answer_layer_depth", DefaultDepth) ELSE c
        c2 == IF "answer_layer_poolsize" \notin DOMAIN c1
              THEN DictSet(c1, "answer_layer_poolsize", DefaultDepth) ELSE c1
        c3 == IF "answer_layer_type" \notin DOMAIN c2
              THEN DictSet(c2, "answer_layer_type", DefaultType) ELSE c2
    IN  [config |-> c3,
         built  |-> Construct(
                      [composition |-> c3["composition"],
                       answer_layer_depth |-> c3["answer_layer_depth"],
                       answer_layer_poolsize |-> c3["answer_layer_poolsize"],
                       answer_layer_type |-> c3["answer_layer_type"]])]

(***************************************************************************)
(* QAPointerModel.create_from_config: the three defaults are written into  *)
(* the caller's dictionary where a key is missing, then the constructor    *)
(* is called with the dictionary's values.                                 *)
(***************************************************************************)
CreateFromConfig(c) ==
    LET c1 == IF "answer_layer_depth" \notin DOMAIN c
              THEN DictSet(c, "answer_layer_depth", DefaultDepth) ELSE c
        c2 == IF "answer_layer_poolsize" \notin DOMAIN c1
              THEN DictSet(c1, "answer_layer_poolsize", DefaultPoolsize)
              ELSE c1
        c3 == IF "answer_layer_type" \notin DOMAIN c2
              THEN DictSet(c2, "answer_layer_type", DefaultType) ELSE c2
    IN  [config |-> c3,
         built  |-> Construct(
                      [composition |-> c3["composition"],
                       answer_layer_depth |-> c3["answer_layer_depth"],
                       answer_layer_poolsize |-> c3["answer_layer_poolsize"],
                       answer_layer_type |-> c3["answer_layer_type"]])]

InitConfig ==
    /\ ConfigIdle
    /\ NullIdle
    /\ DecodeIdle
    /\ InsertIdle

\* a caller constructs a QAPointerModel
NewModel ==
    /\ cfg_pc = "start"
    /\ \E args \in ConstructorArgs :
          LET r == Construct(args)
          IN  /\ model' = r.model
              /\ graph' = r.graph
              /\ error' = r.error
    /\ cfg_pc' = "constructed"
    /\ UNCHANGED <<config, given, restored>>
    /\ UNCHANGED <<nullVars, decodeVars, insVars>>

\* a caller saves the model's configuration
SaveConfig ==
    /\ cfg_pc = "constructed"
    /\ model # <<>>
    /\ config' = <<GetConfig(model[1])>>
    /\ cfg_pc' = "saved"
    /\ UNCHANGED <<model, graph, error, given, restored>>
    /\ UNCHANGED <<nullVars, decodeVars, insVars>>

(***************************************************************************)
(* A caller restores a model from the saved configuration, or from what    *)
(* an older version saved of it: the dictionary without some of the        *)
(* optional keys.                                                          *)
(***************************************************************************)
RestoreModel ==
    /\ cfg_pc = "saved"
    /\ \E D \in SUBSET OptionalKeys :
          LET c == DictDrop(config[1], D)
              r == CreateFromConfig(c)
          IN  /\ given' = <<c>>
              /\ config' = <<r.config>>
              /\ restored' = r.built.model
              /\ graph' = r.built.graph
              /\ error' = r.built.error
    /\ cfg_pc' = "restored"
    /\ UNCHANGED model
    /\ UNCHANGED <<nullVars, decodeVars, insVars>>

NextConfig ==
    \/ NewModel
    \/ SaveConfig
    \/ RestoreModel

SpecConfig == InitConfig /\ [][NextConfig]_vars

(***************************************************************************)
(* C5 as claimed: a constructor call with an answer_layer_type that is     *)
(* neither "dpn" nor "spn" fails with ValueError before any part of the    *)
(* graph has been built.                                                   *)
(***************************************************************************)
C5_FailsBeforeGraphIsBuilt ==
    error = "ValueError" => graph = <<>>

(***************************************************************************)
(* C5 as amended: a constructor call fails, with ValueError, exactly when  *)
(* the answer_layer_type is neither "dpn" nor "spn"; it returns no model   *)
(* and builds no pointer layer, but the flags, the preprocessing layer,    *)
(* the null word and the match layer have been built when it raises.       *)
(***************************************************************************)
C5_FailsAtPointerLayer ==
    cfg_pc = "constructed" =>
        /\ error \in {"none", "ValueError"}
        /\ error = "ValueError" <=> model = <<>>
        /\ model # <<>> => /\ model[1].answer_layer_type \in {"dpn", "spn"}
                           /\ Len(graph) = 6
                           /\ graph[6] = model[1].answer_layer_type
                                            \o "_answer_layer"
        /\ error = "ValueError" =>
              graph = <<"is_eval", "beam_size", "preprocessing_layer",
                        "NULL_WORD", "match_layer">>

\* a constructor call has raised
C5_Witness ==
    cfg_pc = "constructed" /\ error = "ValueError"

\* the four keys of the configuration that describe the architecture
ArchitectureKeys == OptionalKeys \cup {"composition"}

(***************************************************************************)
(* C6: create_from_config(m.get_config()) yields a model with m's          *)
(* composition, answer_layer_depth, answer_layer_poolsize and              *)
(* answer_layer_type, and the result's get_config equals m's on these      *)
(* four keys.                                                              *)
(***************************************************************************)
C6_ConfigRoundTrip ==
    (cfg_pc = "restored" /\ given[1] = GetConfig(model[1])) =>
        /\ error = "none"
        /\ restored # <<>>
        /\ restored[1].composition = model[1].composition
        /\ restored[1].answer_layer_depth = model[1].answer_layer_depth
        /\ restored[1].answer_layer_poolsize = model[1].answer_layer_poolsize
        /\ restored[1].answer_layer_type = model[1].answer_layer_type
        /\ \A k \in ArchitectureKeys :
              GetConfig(restored[1])[k] = GetConfig(model[1])[k]

\* a round trip of a model none of whose fields is a default
C6_Witness ==
    /\ cfg_pc = "restored"
    /\ given[1] = GetConfig(model[1])
    /\ model[1].composition = "LSTM"
    /\ model[1].answer_layer_depth = 2
    /\ model[1].answer_layer_poolsize = 2
    /\ model[1].answer_layer_type = "spn"

(***************************************************************************)
(* C7: create_from_config on a configuration lacking any subset of the     *)
(* three optional keys does not fail; the model has depth 1, poolsize 8    *)
(* and type "dpn" for exactly the missing keys, and the given value for    *)
(* every key that is present.                                              *)
(***************************************************************************)
C7_DefaultsForMissingKeys ==
    cfg_pc = "restored" =>
        LET c == given[1]
            Has(k) == k \in DOMAIN c
        IN  /\ error = "none"
            /\ restored # <<>>
            /\ restored[1].composition = c["composition"]
            /\ restored[1].answer_layer_depth =
                  IF Has("answer_layer_depth")
                  THEN c["answer_layer_depth"] ELSE 1
            /\ restored[1].answer_layer_poolsize =
                  IF Has("answer_layer_poolsize")
                  THEN c["answer_layer_poolsize"] ELSE 8
            /\ restored[1].answer_layer_type =
                  IF Has("answer_layer_type")
                  THEN c["answer_layer_type"] ELSE "dpn"

\* a restore from a configuration with one key present, not at its default,
\* and two keys missing
C7_Witness ==
    /\ cfg_pc = "restored"
    /\ DOMAIN given[1] \cap OptionalKeys = {"answer_layer_depth"}
    /\ given[1]["answer_layer_depth"] = 2
    /\ model[1].answer_layer_poolsize # 8
    /\ model[1].answer_layer_type = "spn"

(***************************************************************************)
(* The pointer layer: flags, scores and the two decoders.                  *)
(***************************************************************************)
\* embedder.max_length: every context tensor is padded to this many tokens
EmbedderMaxLength == 12
\* the longest of the short contexts; a context is short or it has
\* EmbedderMaxLength tokens
MaxLen == 2
\* largest number of hypothesis rows (batch size times beam size) of a pass
MaxRows == 4
\* an answer_partition has at most this many slots more than contexts
MaxExtraSlots == 1
\* the end score rows of the hypothesis rows after the first
\* MaxPeakedRows of an SPN pass are flat
MaxPeakedRows == 1
\* the score of the raised position of a score row, as a weight exp(score);
\* every other position has weight 1
PeakWeight == 2

MAX_ANSWER_LENGTH_HEURISTIC == 10
\* the iterations of the DPN loop, range(4)
DpnIterations == 4

\* the positions of a context tensor after append_null_word, 0-based
Width == EmbedderMaxLength + 1
Pos == 0..(Width - 1)

(***************************************************************************)
(* Scores.  A score is a record [m, w]: w is exp of the network's raw      *)
(* score and m counts the masks added to it.  A mask outweighs every raw   *)
(* score, so scores are ordered by fewer masks first, then larger weight.  *)
(***************************************************************************)
Better(a, b) == a.m < b.m \/ (a.m = b.m /\ a.w > b.w)

\* the function f, tabulated once instead of evaluated at every application
Tabulated(f) == f @@ <<>>

\* tf.arg_max over a row: the lowest index among the best positions
ArgMax(row) ==
    CHOOSE j \in DOMAIN row :
        /\ \A k \in DOMAIN row : ~Better(row[k], row[j])
        /\ \A k \in DOMAIN row : k < j => Better(row[j], row[k])

\* mutant: tf.gather that returns its first argument
GatherNothing(t, idx) == t

\* tf.gather(t, idx) on the first dimension; rows are numbered from 1 here
Gather(t, idx) == Tabulated([k \in 1..Len(idx) |-> t[idx[k]]])

(***************************************************************************)
(* tfutil.mask_for_lengths(lengths, max_length, mask_right) for one row:   *)
(* 1 where the position is masked.  mask_right masks the positions from    *)
(* len on, otherwise the positions before len are masked.                  *)
(***************************************************************************)
MaskForLengths(len, max_length, mask_right) ==
    [j \in 0..(max_length - 1) |->
        IF mask_right THEN (IF j >= len THEN 1 ELSE 0)
                      ELSE (IF j < len THEN 1 ELSE 0)]

\* row + mask
AddMask(row, mask) ==
    Tabulated([j \in DOMAIN row |->
                  [m |-> row[j].m + mask[j], w |-> row[j].w]])

(***************************************************************************)
(* The rows the scoring network emits are drawn from a family: the flat    *)
(* row (-1) or a row with one raised position, one behind the first of a   *)
(* short context or the first position the answer-length heuristic masks   *)
(* behind start 0.  The rows of the DPN are flat or raise the second       *)
(* position.                                                               *)
(***************************************************************************)
PeakPos == (1..(MaxLen - 1)) \cup {MAX_ANSWER_LENGTH_HEURISTIC + 1}

RowIds == {-1} \cup PeakPos

DpnRowIds == {-1, 1}

\* the score tensors of R rows of the family ids whose rows after the
\* first `varied` are flat
ScoreRows(ids, R, varied) ==
    {[h \in 1..R |-> IF h <= varied THEN t[h] ELSE -1] :
        t \in [1..varied -> ids]}

RawScores(p) ==
    [j \in Pos |-> [m |-> 0, w |-> IF j = p THEN PeakWeight ELSE 1]]

(***************************************************************************)
(* _highway_maxout_network(..., lengths, max_length, size) for one row:    *)
(* the raw scores p of the network, masked from position len on.           *)
(***************************************************************************)
Hmn(p, len) == AddMask(RawScores(p), MaskForLengths(len, Width, TRUE))

\* the numbers of real tokens of the contexts of a batch of B contexts:
\* the contexts after the first have one token
ContextTokens(B) ==
    {n \in [1..B -> (1..MaxLen) \cup {EmbedderMaxLength}] :
        \A b \in 1..B : b > 1 => n[b] = 1}

\* the answer partitions of B contexts: every context has an answer slot,
\* slots of one context are adjacent.  Contexts are numbered from 1 here.
Partitions(B) ==
    {ap \in UNION {[1..A -> 1..B] : A \in B..(B + MaxExtraSlots)} :
        /\ \A b \in 1..B : \E k \in DOMAIN ap : ap[k] = b
        /\ \A k \in DOMAIN ap : k > 1 => ap[k - 1] <= ap[k]}

\* the beam sizes a caller sets: 1 or the largest that keeps the hypothesis
\* rows of a pass within MaxRows; a DPN pointer layer never reads the beam
\* size
BeamSizes(type, B) == IF type = "spn" THEN {1, MaxRows \div B} ELSE {1}

\* mutant: the configured beam size is used in train mode too
EffectiveBeamAnyMode(eval, size) == size

\* mutant: the branches of the conditional are swapped
EffectiveBeamSwapped(eval, size) == IF eval THEN 1 ELSE size

\* _spn_answer_layer: beam_size = tf.cond(self._eval, beam_size, 1)
EffectiveBeam(eval, size) == IF eval THEN size ELSE 1

Init ==
    /\ NullIdle
    /\ ConfigIdle
    /\ InsertIdle
    /\ answer_layer_type \in {"dpn", "spn"}
    /\ batch_size \in 1..MaxBatch
    /\ is_eval = FALSE
    /\ beam_size = 1
    /\ last_mode = "none"
    /\ last_beam = 1
    /\ PassIdle
    /\ DpnIdle
    /\ SpnIdle
    /\ OutIdle

\* set_train: the initializer of is_eval is run
SetTrain ==
    /\ pc = "idle"
    /\ is_eval' = FALSE
    /\ last_mode' = "train"
    /\ UNCHANGED <<beam_size, last_beam>>
    /\ UNCHANGED <<answer_layer_type, batch_size, passVars, dpnVars, spnVars,
                   outVars>>
    /\ UNCHANGED <<nullVars, cfgVars, insVars>>

\* set_eval
SetEval ==
    /\ pc = "idle"
    /\ is_eval' = TRUE
    /\ last_mode' = "eval"
    /\ UNCHANGED <<beam_size, last_beam>>
    /\ UNCHANGED <<answer_layer_type, batch_size, passVars, dpnVars, spnVars,
                   outVars>>
    /\ UNCHANGED <<nullVars, cfgVars, insVars>>

\* set_beam_size(sess, k)
SetBeamSize ==
    /\ pc = "idle"
    /\ \E k \in BeamSizes(answer_layer_type, batch_size) :
          /\ beam_size' = k
          /\ last_beam' = k
    /\ UNCHANGED <<is_eval, last_mode>>
    /\ UNCHANGED <<answer_layer_type, batch_size, passVars, dpnVars, spnVars,
                   outVars>>
    /\ UNCHANGED <<nullVars, cfgVars, insVars>>

\* mutant: the flag is recomputed in every iteration, without the logical_or
DpnTrackNoLatch(it, stable, cur, nxt) ==
    IF it > 0
    THEN LET st == nxt[1] = cur[1] /\ nxt[2] = cur[2]
         IN  [stable |-> st, cur |-> IF st THEN cur ELSE nxt]
    ELSE [stable |-> FALSE, cur |-> nxt]

\* mutant: the tracked pointer follows every iteration
DpnTrackLast(it, stable, cur, nxt) ==
    [stable |-> it > 0 /\ (stable \/ nxt = cur), cur |-> nxt]

(***************************************************************************)
(* _dpn_answer_layer, the end of an iteration for one context: cur and nxt *)
(* are the pairs <<start, end>> tracked and selected.                      *)
(***************************************************************************)
DpnTrack(it, stable, cur, nxt) ==
    IF it > 0
    THEN LET st == stable \/ (nxt[1] = cur[1] /\ nxt[2] = cur[2])
             is_stable_int == IF st THEN 1 ELSE 0
         IN  [stable |-> st,
              cur |-> <<cur[1] * is_stable_int + (1 - is_stable_int) * nxt[1],
                        cur[2] * is_stable_int + (1 - is_stable_int) * nxt[2]>>]
    ELSE [stable |-> FALSE, cur |-> nxt]

\* every length of a context, null word included
AllLengths == 1..Width

\* DPN: the start selected from the network's row p
DpnStart(p, len) == ArgMax(Hmn(p, len))

\* mutant: the end is selected from the scores without the heuristic mask
DpnEndUnmasked(p, len, start) == ArgMax(Hmn(p, len))

\* DPN: the end selected from the network's row p, given the start
DpnEnd(p, len, start) ==
    ArgMax(AddMask(Hmn(p, len), MaskForLengths(start, Width, FALSE)))

\* DpnStart and DpnEnd, tabulated
DpnStartTable ==
    Tabulated([t \in DpnRowIds \X AllLengths |-> DpnStart(t[1], t[2])])
DpnEndTable ==
    Tabulated([t \in DpnRowIds \X AllLengths \X Pos |->
                  DpnEnd(t[1], t[2], t[3])])

\* a batch is fed to a model with a DPN pointer layer
FeedDpn ==
    /\ pc = "idle"
    /\ answer_layer_type = "dpn"
    /\ \E n \in ContextTokens(batch_size) :
          context_length' = [b \in 1..batch_size |-> n[b] + 1]
    /\ answer_partition' \in Partitions(batch_size)
    \* not fed: the dummy value
    /\ correct_start_pointer' = [b \in 1..batch_size |-> -1]
    /\ pc' = "dpn"
    /\ i' = 0
    /\ is_stable' = [b \in 1..batch_size |-> FALSE]
    /\ repeats' = [b \in 1..batch_size |-> <<>>]
    /\ UNCHANGED <<next_start, next_end, current_start, current_end>>
    /\ UNCHANGED <<answer_layer_type, batch_size, flagVars, spnVars, outVars>>
    /\ UNCHANGED <<nullVars, cfgVars, insVars>>

\* one iteration of the loop of _dpn_answer_layer
DpnIteration ==
    /\ pc = "dpn"
    /\ i < DpnIterations
    /\ \E sp \in ScoreRows(DpnRowIds, batch_size, 1),
          ep \in ScoreRows(DpnRowIds, batch_size, 1) :
          LET B == batch_size
              ns == Tabulated([b \in 1..B |->
                        DpnStartTable[<<sp[b], context_length[b]>>]])
              ne == Tabulated([b \in 1..B |->
                        DpnEndTable[<<ep[b], context_length[b], ns[b]>>]])
              tr == Tabulated([b \in 1..B |->
                        DpnTrack(i, is_stable[b],
                                 IF i > 0
                                 THEN <<current_start[b], current_end[b]>>
                                 ELSE <<>>,
                                 <<ns[b], ne[b]>>)])
          IN  /\ next_start' = ns
              /\ next_end' = ne
              /\ is_stable' = [b \in 1..B |-> tr[b].stable]
              /\ current_start' = [b \in 1..B |-> tr[b].cur[1]]
              /\ current_end' = [b \in 1..B |-> tr[b].cur[2]]
              /\ repeats' =
                    [b \in 1..B |->
                        IF i > 0 /\ ns[b] = next_start[b]
                                 /\ ne[b] = next_end[b]
                        THEN Append(repeats[b], <<ns[b], ne[b]>>)
                        ELSE repeats[b]]
    \* the score tensors of the iteration: a row is named <<i, b>>, the
    \* scores of context b in iteration i
    /\ start_scores' =
          Append(start_scores,
                 Gather([b \in 1..batch_size |-> <<i, b>>], answer_partition))
    /\ end_scores' =
          Append(end_scores,
                 Gather([b \in 1..batch_size |-> <<i, b>>], answer_partition))
    /\ i' = i + 1
    /\ UNCHANGED <<start_pointer, end_pointer>>
    /\ UNCHANGED <<answer_layer_type, batch_size, flagVars, passVars, spnVars>>
    /\ UNCHANGED <<nullVars, cfgVars, insVars>>

\* _dpn_answer_layer returns
DpnReturn ==
    /\ pc = "dpn"
    /\ i = DpnIterations
    /\ end_pointer' = Gather(current_end, answer_partition)
    /\ start_pointer' = Gather(current_start, answer_partition)
    /\ pc' = "done"
    /\ UNCHANGED <<context_length, answer_partition, correct_start_pointer>>
    /\ UNCHANGED <<start_scores, end_scores>>
    /\ UNCHANGED <<answer_layer_type, batch_size, flagVars, dpnVars, spnVars>>
    /\ UNCHANGED <<nullVars, cfgVars, insVars>>

(***************************************************************************)
(* The beam search engine (BeamSearchDecoder).  A probability is a record  *)
(* [num, den] of naturals, den > 0.                                        *)
(***************************************************************************)
LessProb(a, b) == a.num * b.den < b.num * a.den

TimesProb(a, b) == [num |-> a.num * b.num, den |-> a.den * b.den]

\* the least number of masks on a position of the row
MinMasks(row) ==
    CHOOSE m \in {row[j].m : j \in DOMAIN row} :
        \A j \in DOMAIN row : m <= row[j].m

\* the sum of the weights of the positions j.. of the row that carry mm masks
RECURSIVE SumWeights(_, _, _)
SumWeights(row, j, mm) ==
    IF j \notin DOMAIN row THEN 0
    ELSE (IF row[j].m = mm THEN row[j].w ELSE 0) + SumWeights(row, j + 1, mm)

(***************************************************************************)
(* softmax over a row: a position that carries more masks than another of  *)
(* the row has probability 0.                                              *)
(***************************************************************************)
Softmax(row) ==
    LET mm == MinMasks(row)
        total == SumWeights(row, 0, mm)
    IN  Tabulated([j \in DOMAIN row |->
            [num |-> IF row[j].m = mm THEN row[j].w ELSE 0, den |-> total]])

\* the best index of probs from j on that is not taken; the lowest wins ties
RECURSIVE BestFrom(_, _, _, _)
BestFrom(probs, taken, j, best) ==
    IF j > Len(probs) THEN best
    ELSE IF j \in taken THEN BestFrom(probs, taken, j + 1, best)
    ELSE IF best = 0 \/ LessProb(probs[best], probs[j])
         THEN BestFrom(probs, taken, j + 1, j)
         ELSE BestFrom(probs, taken, j + 1, best)

\* top_k: the indices of the K largest entries of probs, largest first
RECURSIVE TopK(_, _)
TopK(probs, K) ==
    IF K = 0 THEN <<>>
    ELSE LET prev == TopK(probs, K - 1)
         IN  Append(prev,
                    BestFrom(probs, {prev[k] : k \in DOMAIN prev}, 1, 0))

(***************************************************************************)
(* receive_start_scores: softmax, then the top K starts of every decoder   *)
(* row; part gives the context of each decoder row.  The result is the     *)
(* sequence of hypothesis rows, K for each decoder row.                    *)
(***************************************************************************)
receive_start_scores(scores, part, K) ==
    LET top == Tabulated([r \in 1..Len(part) |->
                   LET pr == Softmax(scores[part[r]])
                       flat == [c \in 1..Width |-> pr[c - 1]]
                       idx == TopK(flat, K)
                   IN  [k \in 1..K |->
                           [start |-> idx[k] - 1, prob |-> flat[idx[k]]]]])
    IN  Tabulated([h \in 1..(Len(part) * K) |->
            LET r == ((h - 1) \div K) + 1
                k == ((h - 1) % K) + 1
            IN  [row |-> r, start |-> top[r][k].start,
                 prob |-> top[r][k].prob]])

\* expand_batch: every entry of a per-row tensor, once for each hypothesis
expand_batch(t, K) ==
    Tabulated([h \in 1..(Len(t) * K) |-> t[((h - 1) \div K) + 1]])

(***************************************************************************)
(* receive_end_scores and get_top_spans: softmax of every hypothesis row,  *)
(* times the probability of its start; for every decoder row the top K of  *)
(* its K * Width pairs, flat index (rank - 1) * Width + end.               *)
(***************************************************************************)
get_top_spans(hyps, scores, K) ==
    LET pe == Tabulated([h \in 1..Len(hyps) |-> Softmax(scores[h])])
    IN  Tabulated([r \in 1..(Len(hyps) \div K) |->
            LET joint == Tabulated([c \in 1..(K * Width) |->
                             LET h == (r - 1) * K + ((c - 1) \div Width) + 1
                             IN  TimesProb(hyps[h].prob,
                                           pe[h][(c - 1) % Width])])
                idx == TopK(joint, K)
            IN  Tabulated([k \in 1..K |->
                    LET h == (r - 1) * K + ((idx[k] - 1) \div Width) + 1
                    IN  [start |-> hyps[h].start,
                         end |-> (idx[k] - 1) % Width,
                         hyp |-> h,
                         prob |-> joint[idx[k]]]])])

\* get_final_prediction: the best span of every decoder row
get_final_prediction(spans) == [r \in DOMAIN spans |-> spans[r][1]]

\* _spn_answer_layer_impl.hmn: the null word is left out of the length
SpnHmn(p, len) == Hmn(p, len - 1)

\* mutant: the end scores given to the decoder are masked in train mode too
SpnEndScoresMasked(eval, p, len, start) ==
    AddMask(AddMask(SpnHmn(p, len), MaskForLengths(start, Width, FALSE)),
            MaskForLengths(start + MAX_ANSWER_LENGTH_HEURISTIC + 1,
                           Width, TRUE))

\* mutant: the end scores given to the decoder are never masked
SpnEndScoresRaw(eval, p, len, start) == SpnHmn(p, len)

(***************************************************************************)
(* _spn_answer_layer_impl, the end scores given to the decoder for one     *)
(* hypothesis row: the network's row p, masked before start and from       *)
(* start + MAX_ANSWER_LENGTH_HEURISTIC + 1 on during evaluation.           *)
(***************************************************************************)
SpnEndScores(eval, p, len, start) ==
    LET end_scores_raw == SpnHmn(p, len)
        masked_end_scores ==
            AddMask(AddMask(end_scores_raw,
                            MaskForLengths(start, Width, FALSE)),
                    MaskForLengths(start + MAX_ANSWER_LENGTH_HEURISTIC + 1,
                                   Width, TRUE))
    IN  IF eval THEN masked_end_scores ELSE end_scores_raw

\* the gold starts a caller feeds for the answer slots ap of contexts of
\* n tokens: the first or, for the first slot, the second token
GoldStarts(n, ap) ==
    {g \in [DOMAIN ap -> {0, 1}] :
        \A k \in DOMAIN ap : g[k] = 1 => (k = 1 /\ n[ap[k]] > 1)}

\* a batch is fed to a model with an SPN pointer layer; the gold start of
\* every answer slot is fed during training
FeedSpn ==
    /\ pc = "idle"
    /\ answer_layer_type = "spn"
    /\ \E n \in ContextTokens(batch_size), ap \in Partitions(batch_size) :
          /\ context_length' = [b \in 1..batch_size |-> n[b] + 1]
          /\ answer_partition' = ap
          /\ IF is_eval
             THEN correct_start_pointer' = [b \in 1..batch_size |-> -1]
             ELSE correct_start_pointer' \in GoldStarts(n, ap)
    /\ pc' = "spn_start"
    /\ UNCHANGED <<answer_layer_type, batch_size, flagVars, dpnVars, spnVars,
                   outVars>>
    /\ UNCHANGED <<nullVars, cfgVars, insVars>>

\* _spn_answer_layer up to receive_start_scores
SpnStart ==
    /\ pc = "spn_start"
    /\ \E sp \in ScoreRows(RowIds, batch_size, 1) :
          LET K == EffectiveBeam(is_eval, beam_size)
              ap == IF is_eval THEN [b \in 1..batch_size |-> b]
                               ELSE answer_partition
              scores == Tabulated([b \in 1..batch_size |->
                            SpnHmn(sp[b], context_length[b])])
              hyps == receive_start_scores(scores, ap, K)
              part == expand_batch(ap, K)
          IN  /\ spn_beam_size' = K
              /\ spn_answer_partition' = ap
              /\ spn_start_scores' = scores
              /\ hypotheses' = hyps
              /\ partition' = part
              /\ spn_start_pointer' =
                    IF is_eval
                    THEN Tabulated([h \in DOMAIN hyps |-> hyps[h].start])
                    ELSE expand_batch(correct_start_pointer, K)
    /\ pc' = "spn_end"
    /\ UNCHANGED <<spn_end_scores, top_spans>>
    /\ UNCHANGED <<context_length, answer_partition, correct_start_pointer>>
    /\ UNCHANGED <<answer_layer_type, batch_size, flagVars, dpnVars, outVars>>
    /\ UNCHANGED <<nullVars, cfgVars, insVars>>

\* expand_if_eval
ExpandIfEval(eval, t, ap) == IF eval THEN Gather(t, ap) ELSE t

\* _spn_answer_layer from the end scoring to the return
SpnEnd ==
    /\ pc = "spn_end"
    /\ \E ep \in ScoreRows(RowIds, Len(hypotheses), MaxPeakedRows) :
          LET context_lengths == Gather(context_length, partition)
              scores == Tabulated([h \in DOMAIN hypotheses |->
                            SpnEndScores(is_eval, ep[h], context_lengths[h],
                                         spn_start_pointer[h])])
              spans == get_top_spans(hypotheses, scores, spn_beam_size)
              final == get_final_prediction(spans)
          IN  /\ spn_end_scores' = scores
              /\ top_spans' = spans
              \* the returned score rows: <<0, b>> names the start scores
              \* of context b, <<1, h>> the end scores of hypothesis row h
              /\ start_scores' =
                    ExpandIfEval(is_eval,
                        [r \in DOMAIN final |-> <<0, spn_answer_partition[r]>>],
                        answer_partition)
              /\ end_scores' =
                    ExpandIfEval(is_eval,
                        [r \in DOMAIN final |-> <<1, final[r].hyp>>],
                        answer_partition)
              /\ start_pointer' =
                    ExpandIfEval(is_eval,
                        [r \in DOMAIN final |-> final[r].start],
                        answer_partition)
              /\ end_pointer' =
                    ExpandIfEval(is_eval,
                        [r \in DOMAIN final |-> final[r].end],
                        answer_partition)
    /\ pc' = "done"
    /\ UNCHANGED <<spn_beam_size, spn_answer_partition, spn_start_scores,
                   hypotheses, partition, spn_start_pointer>>
    /\ UNCHANGED <<context_length, answer_partition, correct_start_pointer>>
    /\ UNCHANGED <<answer_layer_type, batch_size, flagVars, dpnVars>>
    /\ UNCHANGED <<nullVars, cfgVars, insVars>>

\* the caller has read the results; the next batch can be fed
NextBatch ==
    /\ pc = "done"
    /\ pc' = "idle"
    /\ context_length' = <<>>
    /\ answer_partition' = <<>>
    /\ correct_start_pointer' = <<>>
    /\ i' = 0
    /\ next_start' = <<>>
    /\ next_end' = <<>>
    /\ current_start' = <<>>
    /\ current_end' = <<>>
    /\ is_stable' = <<>>
    /\ repeats' = <<>>
    /\ start_scores' = <<>>
    /\ end_scores' = <<>>
    /\ start_pointer' = <<>>
    /\ end_pointer' = <<>>
    /\ spn_beam_size' = 1
    /\ spn_answer_partition' = <<>>
    /\ spn_start_scores' = <<>>
    /\ hypotheses' = <<>>
    /\ partition' = <<>>
    /\ spn_start_pointer' = <<>>
    /\ spn_end_scores' = <<>>
    /\ top_spans' = <<>>
    /\ UNCHANGED <<answer_layer_type, batch_size, flagVars>>
    /\ UNCHANGED <<nullVars, cfgVars, insVars>>

Next ==
    \/ SetTrain
    \/ SetEval
    \/ SetBeamSize
    \/ FeedDpn
    \/ DpnIteration
    \/ DpnReturn
    \/ FeedSpn
    \/ SpnStart
    \/ SpnEnd
    \/ NextBatch

Spec == Init /\ [][Next]_vars

(***************************************************************************)
(* Claims about the DPN decoder.                                           *)
(***************************************************************************)
\* C2, as stated: whenever the pair (start, end) selected in an iteration
\* equals the pair selected in the iteration before, the tracked pointer
\* after that iteration and after every later one, and the returned
\* pointer, equal that pair.
C2_EveryRepeatFreezes ==
    (answer_layer_type = "dpn" /\ pc \in {"dpn", "done"}) =>
        \A b \in 1..batch_size : \A k \in DOMAIN repeats[b] :
            /\ current_start[b] = repeats[b][k][1]
            /\ current_end[b] = repeats[b][k][2]
            /\ pc = "done" =>
                  \A a \in DOMAIN answer_partition :
                      answer_partition[a] = b =>
                          /\ start_pointer[a] = repeats[b][k][1]
                          /\ end_pointer[a] = repeats[b][k][2]

\* C2, amended: the first time the pair selected in an iteration equals
\* the pair selected in the iteration before, the tracked pointer after
\* that iteration and after every later one, and the returned pointer,
\* equal that pair, whatever is selected afterwards.
C2_FirstRepeatFreezes ==
    (answer_layer_type = "dpn" /\ pc \in {"dpn", "done"}) =>
        \A b \in 1..batch_size :
            Len(repeats[b]) > 0 =>
                /\ current_start[b] = repeats[b][1][1]
                /\ current_end[b] = repeats[b][1][2]
                /\ pc = "done" =>
                      \A a \in DOMAIN answer_partition :
                          answer_partition[a] = b =>
                              /\ start_pointer[a] = repeats[b][1][1]
                              /\ end_pointer[a] = repeats[b][1][2]

\* a pass has returned for a context whose pair repeated and whose last
\* iteration selected another pair
C2_Witness ==
    /\ answer_layer_type = "dpn"
    /\ pc = "done"
    /\ \E b \in 1..batch_size :
          /\ Len(repeats[b]) > 0
          /\ <<next_start[b], next_end[b]>> # repeats[b][1]
          /\ \E a \in DOMAIN answer_partition :
                /\ answer_partition[a] = b
                /\ start_pointer[a] = repeats[b][1][1]
                /\ end_pointer[a] = repeats[b][1][2]

\* C10: the DPN decoder's score tensors of every iteration and its returned
\* pointers, and the SPN decoder's returned tensors in eval mode, have one
\* row for each answer slot, and two slots of the same context have equal
\* rows.
C10_AnswerPartitionConsistency ==
    LET A == Len(answer_partition)
        Consistent(t) ==
            /\ Len(t) = A
            /\ \A k, l \in 1..A :
                  answer_partition[k] = answer_partition[l] => t[k] = t[l]
    IN  /\ (answer_layer_type = "dpn" /\ pc \in {"dpn", "done"}) =>
              /\ Len(start_scores) = i
              /\ Len(end_scores) = i
              /\ \A t \in 1..i : /\ Consistent(start_scores[t])
                                 /\ Consistent(end_scores[t])
        /\ (answer_layer_type = "spn" /\ pc = "done" /\ is_eval) =>
              /\ Consistent(start_scores)
              /\ Consistent(end_scores)
        /\ (pc = "done" /\ (answer_layer_type = "dpn" \/ is_eval)) =>
              /\ Consistent(start_pointer)
              /\ Consistent(end_pointer)

\* a DPN pass has returned for two contexts with different pointers, the
\* first of them with two answer slots
C10_Witness ==
    /\ answer_layer_type = "dpn"
    /\ pc = "done"
    /\ answer_partition = <<1, 1, 2>>
    /\ start_pointer[1] = start_pointer[2]
    /\ start_pointer[2] # start_pointer[3]
    /\ Len(start_scores) = DpnIterations

(***************************************************************************)
(* C11: the stability flag of the DPN loop is a monotone latch.  For every *)
(* context the flag is false until iteration 0 has completed, it is true   *)
(* after an iteration exactly when the pair selected in that or an earlier *)
(* iteration (from iteration 1 on) was the pair tracked before it, and an  *)
(* iteration never resets it; the loop runs all 4 iterations and has       *)
(* recorded 4 start-score and 4 end-score tensors when it returns.         *)
(***************************************************************************)
C11_StableSoFar ==
    (answer_layer_type = "dpn" /\ pc \in {"dpn", "done"}) =>
        /\ i \in 0..DpnIterations
        /\ Len(start_scores) = i
        /\ Len(end_scores) = i
        /\ pc = "done" => i = DpnIterations
        /\ \A b \in 1..batch_size :
              /\ is_stable[b] \in BOOLEAN
              /\ i <= 1 => ~is_stable[b]
              /\ is_stable[b] = (Len(repeats[b]) > 0)

C11_LatchStep ==
    (pc = "dpn" /\ pc' \in {"dpn", "done"}) =>
        /\ i' \in {i, i + 1}
        /\ pc' = "done" => i = DpnIterations
        /\ \A b \in 1..batch_size : is_stable[b] => is_stable'[b]

C11_StabilityLatch == []C11_StableSoFar /\ [][C11_LatchStep]_vars

\* a pass has returned for a context whose flag was set and whose last
\* iteration selected another pair than the tracked one
C11_Witness ==
    /\ answer_layer_type = "dpn"
    /\ pc = "done"
    /\ is_stable[1]
    /\ <<next_start[1], next_end[1]>> # <<current_start[1], current_end[1]>>
    /\ Len(start_scores) = DpnIterations
    /\ Len(end_scores) = DpnIterations

(***************************************************************************)
(* C12: in every iteration of the DPN loop the selected end is not before  *)
(* the start selected in the same iteration; the tracked start and end are *)
(* the pair of one iteration (the first repeated pair once the flag is     *)
(* set, the pair of the last iteration before), so the tracked and the     *)
(* returned pointers have end >= start for every context and answer slot.  *)
(***************************************************************************)
C12_EndNotBeforeStart ==
    (answer_layer_type = "dpn" /\ pc \in {"dpn", "done"} /\ i > 0) =>
        /\ \A b \in 1..batch_size :
              /\ next_end[b] >= next_start[b]
              /\ <<current_start[b], current_end[b]>> =
                    IF is_stable[b] THEN repeats[b][1]
                                    ELSE <<next_start[b], next_end[b]>>
              /\ current_end[b] >= current_start[b]
        /\ pc = "done" =>
              \A a \in DOMAIN answer_partition :
                  end_pointer[a] >= start_pointer[a]

\* a pass has returned a start behind the first position although the end
\* scores of its last iteration were flat: without the mask the end would
\* be position 0
C12_Witness ==
    /\ answer_layer_type = "dpn"
    /\ pc = "done"
    /\ start_pointer[1] > 0
    /\ end_pointer[1] = start_pointer[1]
    /\ ~is_stable[1]

(***************************************************************************)
(* Claims about the flags and the SPN decoder.                             *)
(***************************************************************************)
\* C3: in eval mode every span (start, end) the SPN decoder returns has
\* start <= end <= start + MAX_ANSWER_LENGTH_HEURISTIC.
C3_SelectedEndInWindow ==
    (answer_layer_type = "spn" /\ pc = "done" /\ is_eval) =>
        \A r \in DOMAIN top_spans : \A k \in DOMAIN top_spans[r] :
            /\ top_spans[r][k].start <= top_spans[r][k].end
            /\ top_spans[r][k].end
                  <= top_spans[r][k].start + MAX_ANSWER_LENGTH_HEURISTIC

\* C4: the mode flag is that of the last of set_train and set_eval (train
\* when none was called), the stored beam size is the last one set, and an
\* SPN pass decodes with beam size 1 in train mode and with the stored
\* beam size in eval mode.
C4_EffectiveBeamSize ==
    /\ is_eval = (last_mode = "eval")
    /\ beam_size = last_beam
    /\ (answer_layer_type = "spn" /\ pc \in {"spn_end", "done"}) =>
          spn_beam_size = IF last_mode = "eval" THEN last_beam ELSE 1

\* an SPN pass in train mode, set after a larger beam size was stored
C4_Witness ==
    /\ answer_layer_type = "spn"
    /\ pc = "done"
    /\ last_mode = "train"
    /\ last_beam > 1
    /\ beam_size = last_beam
    /\ spn_beam_size = 1

\* C8: in eval mode with beam size K > 1, get_top_spans returns K spans for
\* every context, in the order of non-increasing probability.
C8_TopSpans ==
    (answer_layer_type = "spn" /\ pc = "done" /\ is_eval /\ beam_size > 1) =>
        /\ Len(top_spans) = batch_size
        /\ \A r \in DOMAIN top_spans :
              /\ Len(top_spans[r]) = beam_size
              /\ \A k \in 1..(beam_size - 1) :
                    ~LessProb(top_spans[r][k].prob, top_spans[r][k + 1].prob)

\* a context with fewer than K spans of positive probability
C8_Witness ==
    /\ answer_layer_type = "spn"
    /\ pc = "done"
    /\ is_eval
    /\ beam_size > 1
    /\ \E r \in DOMAIN top_spans :
          /\ top_spans[r][1].prob.num > 0
          /\ top_spans[r][beam_size].prob.num = 0

\* C9: in eval mode with beam size 1 the returned start of every answer
\* slot is the argmax of its context's start scores, the end scores given
\* to the decoder are masked before that start and more than
\* MAX_ANSWER_LENGTH_HEURISTIC behind it, and the returned end is their
\* argmax.
C9_BeamOneIsGreedy ==
    (answer_layer_type = "spn" /\ pc = "done" /\ is_eval /\ beam_size = 1) =>
        \A a \in DOMAIN answer_partition :
            LET b == answer_partition[a]
                s == ArgMax(spn_start_scores[b])
                row == spn_end_scores[b]
            IN  /\ start_pointer[a] = s
                /\ row[s].m = 0
                /\ \A j \in Pos :
                      (j < s \/ j > s + MAX_ANSWER_LENGTH_HEURISTIC) =>
                          row[j].m > 0
                /\ end_pointer[a] = ArgMax(row)

\* a greedy pass whose start is not the first position and whose end is
\* behind the start
C9_Witness ==
    /\ answer_layer_type = "spn"
    /\ pc = "done"
    /\ is_eval
    /\ beam_size = 1
    /\ start_pointer[1] > 0
    /\ end_pointer[1] > start_pointer[1]

(***************************************************************************)
(* C13: the SPN decoder never selects the null word.  For every context    *)
(* (each has a real token) no start the decoder chose after the start      *)
(* scores, no end of a span of get_top_spans and no returned pointer is    *)
(* the position of the null word, context_length - 1.                      *)
(***************************************************************************)
C13_NullWordNeverSelected ==
    (answer_layer_type = "spn" /\ pc \in {"spn_end", "done"}) =>
        /\ \A h \in DOMAIN hypotheses :
              hypotheses[h].start # context_length[partition[h]] - 1
        /\ pc = "done" =>
              /\ \A r \in DOMAIN top_spans : \A k \in DOMAIN top_spans[r] :
                    LET null == context_length[spn_answer_partition[r]] - 1
                    IN  /\ top_spans[r][k].start # null
                        /\ top_spans[r][k].end # null
              /\ \A a \in DOMAIN answer_partition :
                    LET null == context_length[answer_partition[a]] - 1
                    IN  /\ start_pointer[a] # null
                        /\ end_pointer[a] # null

(***************************************************************************)
(* C14: the start the end scoring is given depends on the mode only.  In   *)
(* train mode the decoder has one row for each answer slot, the start of   *)
(* a row is the gold start fed for its slot, whatever start the decoder    *)
(* predicted, and the end scores given to the decoder are masked from the  *)
(* null word on only; in eval mode the start of a row is the start the     *)
(* decoder predicted for it and the end scores are masked before that      *)
(* start and more than MAX_ANSWER_LENGTH_HEURISTIC behind it as well.      *)
(***************************************************************************)
C14_StartForEndScoring ==
    LET \* the masks on position j of the end scores of a context of
        \* length len (null word included) in the two modes
        EndMaskTrain(j, len) == IF j >= len - 1 THEN 1 ELSE 0
        EndMaskEval(j, len, start) ==
            EndMaskTrain(j, len)
                + (IF j < start THEN 1 ELSE 0)
                + (IF j >= start + MAX_ANSWER_LENGTH_HEURISTIC + 1
                   THEN 1 ELSE 0)
    IN
    (answer_layer_type = "spn" /\ pc \in {"spn_end", "done"}) =>
        /\ Len(spn_start_pointer) = Len(hypotheses)
        /\ ~is_eval =>
              /\ Len(spn_start_pointer) = Len(answer_partition)
              /\ \A a \in DOMAIN answer_partition :
                    /\ partition[a] = answer_partition[a]
                    /\ spn_start_pointer[a] = correct_start_pointer[a]
                    /\ pc = "done" =>
                          \A j \in Pos :
                              spn_end_scores[a][j].m =
                                  EndMaskTrain(j, context_length[partition[a]])
        /\ is_eval =>
              \A h \in DOMAIN hypotheses :
                  /\ spn_start_pointer[h] = hypotheses[h].start
                  /\ pc = "done" =>
                        \A j \in Pos :
                            spn_end_scores[h][j].m =
                                EndMaskEval(j, context_length[partition[h]],
                                            spn_start_pointer[h])

\* a pass in train mode whose gold start is not the start the decoder
\* predicted and whose returned end is before the gold start
C14_Witness ==
    /\ answer_layer_type = "spn"
    /\ pc = "done"
    /\ ~is_eval
    /\ correct_start_pointer[1] > 0
    /\ hypotheses[1].start # correct_start_pointer[1]
    /\ spn_start_pointer[1] = correct_start_pointer[1]
    /\ end_pointer[1] < correct_start_pointer[1]

(***************************************************************************)
(* insert_answers (tools/bioasq_inference.py): the predicted answers are   *)
(* written into the questions of a BioASQ file.                            *)
(***************************************************************************)
\* largest number of questions of a file
MaxQuestions == 2
\* largest number of answers of an InferenceResult
MaxAnswers == 6

\* FLAGS.list_answer_prob_threshold, in percent
list_answer_prob_threshold == 4
\* answer_strings[:5]
NonListAnswerCount == 5

\* the probabilities of answers, in percent: at the threshold or above it
AnswerProbs == {list_answer_prob_threshold, list_answer_prob_threshold + 1}

\* the question types: "list" and one of the others
QuestionTypes == {"list", "factoid"}

(***************************************************************************)
(* An InferenceResult is the sequence of its answers, best first, each a   *)
(* record of answer_string and answer_prob; iterating over it yields the   *)
(* pairs in this order.  The string of the answer of rank k is k.  A       *)
(* result has an answer, and the probabilities do not increase.            *)
(***************************************************************************)
InferenceResults ==
    UNION {{[k \in 1..n |->
                [answer_string |-> k,
                 answer_prob |-> IF k <= above
                                 THEN list_answer_prob_threshold + 1
                                 ELSE list_answer_prob_threshold]] :
              above \in 0..n} : n \in 1..MaxAnswers}

\* InferenceResult.answer_strings
AnswerStrings(res) == [k \in 1..Len(res) |-> res[k].answer_string]

\* seq[:n]
Take(seq, n) == SubSeq(seq, 1, IF Len(seq) < n THEN Len(seq) ELSE n)

\* the files: question k has id k, any type, and no answer yet
BioasqJsons ==
    UNION {{[questions |-> [k \in 1..n |->
                 [id |-> k, type |-> t[k], exact_answer |-> <<>>,
                  ideal_answer |-> "ideal"]]] :
              t \in [1..n -> QuestionTypes]} : n \in 1..MaxQuestions}

\* the maps from some of the ids 1..n to InferenceResults
AnswerMaps(n) ==
    UNION {[ids -> InferenceResults] : ids \in SUBSET (1..n)}

\* mutant: the top answer is not taken when no answer is selected
ExactAnswerNoFallback(question, res) ==
    LET answer_strings ==
            IF question.type = "list"
            THEN AnswerStrings(SelectSeq(res,
                     LAMBDA a : a.answer_prob > list_answer_prob_threshold))
            ELSE Take(AnswerStrings(res), NonListAnswerCount)
    IN  [k \in 1..Len(answer_strings) |-> <<answer_strings[k]>>]

\* insert_answers, lines 49-59: the exact_answer of a question with result
\* res
ExactAnswer(question, res) ==
    LET selected ==
            IF question.type = "list"
            THEN AnswerStrings(SelectSeq(res,
                     LAMBDA a : a.answer_prob > list_answer_prob_threshold))
            ELSE Take(AnswerStrings(res), NonListAnswerCount)
        answer_strings ==
            IF Len(selected) = 0 THEN <<AnswerStrings(res)[1]>>
                                 ELSE selected
    IN  [k \in 1..Len(answer_strings) |-> <<answer_strings[k]>>]

\* the question after lines 59-60
Answered(question, res) ==
    [question EXCEPT !.exact_answer = ExactAnswer(question, res),
                     !.ideal_answer = ""]

\* the list `questions` after the loop has run from question k on
RECURSIVE InsertFrom(_, _, _)
InsertFrom(qs, ans, k) ==
    IF k > Len(qs) THEN <<>>
    ELSE (IF qs[k].id \in DOMAIN ans
          THEN <<Answered(qs[k], ans[qs[k].id])>>
          ELSE <<>>) \o InsertFrom(qs, ans, k + 1)

\* insert_answers(json, ans): the returned dictionary
insert_answers(json, ans) ==
    [questions |-> InsertFrom(json.questions, ans, 1)]

InitInsert ==
    /\ ins_pc = "start"
    /\ bioasq_json \in BioasqJsons
    /\ answers \in AnswerMaps(Len(bioasq_json.questions))
    /\ inserted = <<>>
    /\ NullIdle
    /\ ConfigIdle
    /\ DecodeIdle

\* a call of insert_answers; the questions that have an answer are changed
\* in place
InsertAnswers ==
    /\ ins_pc = "start"
    /\ inserted' = <<insert_answers(bioasq_json, answers)>>
    /\ bioasq_json' =
          [questions |->
              [k \in DOMAIN bioasq_json.questions |->
                  LET question == bioasq_json.questions[k]
                  IN  IF question.id \in DOMAIN answers
                      THEN Answered(question, answers[question.id])
                      ELSE question]]
    /\ ins_pc' = "returned"
    /\ UNCHANGED answers
    /\ UNCHANGED <<nullVars, cfgVars, decodeVars>>

NextInsert == InsertAnswers

SpecInsert == InitInsert /\ [][NextInsert]_vars

(***************************************************************************)
(* C15: insert_answers returns the questions of the file whose id is a key *)
(* of answers, in the order of the file.  Each of them has a non-empty     *)
(* exact_answer, a list of lists of one string: for a question that is not *)
(* a list question the first 5 answer strings of its result, or all if     *)
(* there are fewer; for a list question the strings of the answers whose   *)
(* probability is above list_answer_prob_threshold, in their order, or,    *)
(* if there is none, the first answer string alone.                        *)
(***************************************************************************)
C15_InsertAnswers ==
    ins_pc = "returned" =>
        LET qs == bioasq_json.questions
            out == inserted[1].questions
            \* the positions in the file of the questions with an answer
            kept == {k \in DOMAIN qs : qs[k].id \in DOMAIN answers}
            \* the position in the file of the r-th of them
            At(r) == CHOOSE k \in kept :
                        Cardinality({l \in kept : l < k}) = r - 1
            Min(a, b) == IF a < b THEN a ELSE b
        IN  /\ DOMAIN inserted[1] = {"questions"}
            /\ Len(out) = Cardinality(kept)
            /\ \A r \in DOMAIN out :
                  LET q == qs[At(r)]
                      res == answers[q.id]
                      ea == out[r].exact_answer
                      above == {j \in DOMAIN res :
                                   res[j].answer_prob
                                       > list_answer_prob_threshold}
                  IN  /\ out[r].id = q.id
                      /\ out[r].type = q.type
                      /\ Len(ea) > 0
                      /\ \A k \in DOMAIN ea : Len(ea[k]) = 1
                      /\ q.type # "list" =>
                            /\ Len(ea) = Min(Len(res), 5)
                            /\ \A k \in DOMAIN ea :
                                  ea[k][1] = res[k].answer_string
                      /\ (q.type = "list" /\ above # {}) =>
                            /\ Len(ea) = Cardinality(above)
                            /\ \A k \in DOMAIN ea :
                                  \E j \in above :
                                      /\ Cardinality({l \in above : l < j})
                                            = k - 1
                                      /\ ea[k][1] = res[j].answer_string
                      /\ (q.type = "list" /\ above = {}) =>
                            ea = <<<<res[1].answer_string>>>>

\* a call for a file whose first question has no answer and whose second
\* question, a list question, has several answers, none of them above the
\* threshold
C15_Witness ==
    /\ ins_pc = "returned"
    /\ Len(bioasq_json.questions) = 2
    /\ DOMAIN answers = {2}
    /\ bioasq_json.questions[2].type = "list"
    /\ Len(answers[2]) > 1
    /\ \A j \in DOMAIN answers[2] :
          answers[2][j].answer_prob <= list_answer_prob_threshold
    /\ Len(inserted[1].questions) = 1
    /\ inserted[1].questions[1].id = 2
    /\ inserted[1].questions[1].exact_answer = <<<<1>>>>

=============================================================================
